---- MODULE Spec2Model ----
(***************************************************************************)
(* Sales pipeline of Praxis CRM (apps/sales): the opportunity lifecycle,   *)
(* the interaction log and the monthly quota ("meta") engine of            *)
(* services.py, driven by the views of views.py.                           *)
(*                                                                         *)
(* Decimal amounts are exact, so they are integers here.  A Python value   *)
(* that may be None is a sequence of length 0 (None) or 1 (the value).     *)
(* Timestamps are instants of Calendario, of which the code reads only     *)
(* the month and the year.  Of an Oportunidade only the fields the         *)
(* services read or write are kept (titulo, cliente and descricao are      *)
(* stored and never read back by them), and of the Interacao table, which  *)
(* they write and never read, the number of its rows.  The users are       *)
(* sellers: the mixins that admit a user to a view are not part of the     *)
(* code modelled.                                                          *)
(***************************************************************************)
EXTENDS Integers, Sequences, FiniteSets

VARIABLES oportunidades, metas, interacoes, agora, reqs, resp

vars == <<oportunidades, metas, interacoes, agora, reqs, resp>>

----------------------------------------------------------------------------
(* Bounds of the model *)

MaxOportunidades == 2
MaxInteracoes == 1
MaxValorStatus == 8

Vendedores == {"A", "B"}
Valores == {600}
ValoresMeta == {450, 1000}
Requests == {"r1", "r2"}

\* The instants the clock passes through, as (month, year).
Calendario == <<[mes |-> 6, ano |-> 2024], [mes |-> 7, ano |-> 2024]>>

\* The month of the targets the administrative process sets.
PeriodoMeta == Calendario[1]

None == << >>
Some(x) == <<x>>

\* The mes/ano arguments a query is made with (None: not given).
ArgsPeriodo ==
    { [mes |-> None, ano |-> None],
      [mes |-> Some(6), ano |-> Some(2024)],
      [mes |-> Some(7), ano |-> Some(2024)],
      [mes |-> Some(6), ano |-> Some(2025)],
      [mes |-> Some(7), ano |-> None] }

\* Those that name both.
ArgsCompletos == {a \in ArgsPeriodo : a.mes # None /\ a.ano # None}

----------------------------------------------------------------------------
(* apps.core.enums.EtapaOportunidade *)

PROSPECCAO == "PROSPECCAO"
QUALIFICACAO == "QUALIFICACAO"
PROPOSTA == "PROPOSTA"
NEGOCIACAO == "NEGOCIACAO"
FECHAMENTO == "FECHAMENTO"
PERDIDA == "PERDIDA"

EtapaOportunidade ==
    {PROSPECCAO, QUALIFICACAO, PROPOSTA, NEGOCIACAO, FECHAMENTO, PERDIDA}

ORDEM_ETAPAS == <<PROSPECCAO, QUALIFICACAO, PROPOSTA, NEGOCIACAO, FECHAMENTO>>

\* list.index
index(lista, x) == CHOOSE i \in 1..Len(lista) : lista[i] = x

\* timezone.now()
hoje == Calendario[agora]

----------------------------------------------------------------------------
(* The data store *)

\* Oportunidade.objects.create: a new row, criado_em and atualizado_em set
\* to now.
Oportunidade_create(campos) ==
    [vendedor |-> campos.vendedor,
     valor_estimado |-> campos.valor_estimado,
     etapa |-> campos.etapa,
     criado_em |-> agora,
     atualizado_em |-> agora]

\* oportunidade.save(update_fields=...): only the named columns of the row
\* are written; atualizado_em is written as now.
save(tabela, pk, oportunidade, update_fields) ==
    [tabela EXCEPT ![pk] =
        [@ EXCEPT !.etapa = IF "etapa" \in update_fields
                            THEN oportunidade.etapa ELSE @,
                  !.atualizado_em = IF "atualizado_em" \in update_fields
                                    THEN agora ELSE @]]

----------------------------------------------------------------------------
(* services.py: opportunity lifecycle *)

criar_oportunidade(vendedor, valor_estimado) ==
    Oportunidade_create([vendedor |-> vendedor,
                         valor_estimado |-> valor_estimado,
                         etapa |-> PROSPECCAO])

Raise(erro, oportunidade) ==
    [erro |-> erro, oportunidade |-> oportunidade, update_fields |-> {}]

Return(oportunidade, update_fields) ==
    [erro |-> "", oportunidade |-> oportunidade, update_fields |-> update_fields]

\* As avancar_etapa, the guard on PERDIDA left out.
avancar_etapa_sem_guarda(oportunidade) ==
    IF oportunidade.etapa = FECHAMENTO
    THEN Raise("ValidationError", oportunidade)
    ELSE IF \A i \in 1..Len(ORDEM_ETAPAS) : ORDEM_ETAPAS[i] # oportunidade.etapa
    THEN Raise("ValueError", oportunidade)
    ELSE Return([oportunidade EXCEPT
                    !.etapa = ORDEM_ETAPAS[index(ORDEM_ETAPAS, oportunidade.etapa) + 1]],
                {"etapa", "atualizado_em"})

\* As avancar_etapa, going straight to the last stage.
avancar_etapa_pula(oportunidade) ==
    IF oportunidade.etapa \in {PERDIDA, FECHAMENTO}
    THEN Raise("ValidationError", oportunidade)
    ELSE Return([oportunidade EXCEPT !.etapa = ORDEM_ETAPAS[Len(ORDEM_ETAPAS)]],
                {"etapa", "atualizado_em"})

\* As avancar_etapa, the last stage saved again instead of refused (as
\* marcar_perdida does with PERDIDA).
avancar_etapa_reabre(oportunidade) ==
    IF oportunidade.etapa = PERDIDA
    THEN Raise("ValidationError", oportunidade)
    ELSE IF oportunidade.etapa = FECHAMENTO
    THEN Return(oportunidade, {"etapa", "atualizado_em"})
    ELSE Return([oportunidade EXCEPT
                    !.etapa = ORDEM_ETAPAS[index(ORDEM_ETAPAS, oportunidade.etapa) + 1]],
                {"etapa", "atualizado_em"})

avancar_etapa(oportunidade) ==
    IF oportunidade.etapa = PERDIDA
    THEN Raise("ValidationError", oportunidade)
    ELSE IF oportunidade.etapa = FECHAMENTO
    THEN Raise("ValidationError", oportunidade)
    ELSE IF \A i \in 1..Len(ORDEM_ETAPAS) : ORDEM_ETAPAS[i] # oportunidade.etapa
    THEN Raise("ValueError", oportunidade)
    ELSE Return([oportunidade EXCEPT
                    !.etapa = ORDEM_ETAPAS[index(ORDEM_ETAPAS, oportunidade.etapa) + 1]],
                {"etapa", "atualizado_em"})

\* As marcar_perdida, the guard on FECHAMENTO left out.
marcar_perdida_sem_guarda(oportunidade) ==
    Return([oportunidade EXCEPT !.etapa = PERDIDA], {"etapa", "atualizado_em"})

\* As marcar_perdida, the guard on the other final stage.
marcar_perdida_guarda_trocada(oportunidade) ==
    IF oportunidade.etapa = PERDIDA
    THEN Raise("ValidationError", oportunidade)
    ELSE Return([oportunidade EXCEPT !.etapa = PERDIDA],
                {"etapa", "atualizado_em"})

marcar_perdida(oportunidade) ==
    IF oportunidade.etapa = FECHAMENTO
    THEN Raise("ValidationError", oportunidade)
    ELSE Return([oportunidade EXCEPT !.etapa = PERDIDA],
                {"etapa", "atualizado_em"})

\* Interacao.objects.create: one more row, the opportunity untouched.
registrar_interacao(oportunidade_pk) == interacoes + 1

\* What a service call leaves in the data store: the save it made, if any.
Persistido(pk, r) ==
    IF r.erro = "" THEN save(oportunidades, pk, r.oportunidade, r.update_fields)
    ELSE oportunidades

----------------------------------------------------------------------------
(* services.py: quota engine *)

\* QuerySet.aggregate(total=Sum("valor_estimado"))["total"]: NULL, which is
\* None, over no rows.
RECURSIVE Soma(_)
Soma(pks) ==
    IF pks = {} THEN 0
    ELSE LET pk == CHOOSE x \in pks : TRUE
         IN oportunidades[pk].valor_estimado + Soma(pks \ {pk})

aggregate_Sum(pks) == IF pks = {} THEN None ELSE Some(Soma(pks))

\* total or Decimal("0.00")
or_zero(total) == IF total = None \/ total[1] = 0 THEN 0 ELSE total[1]

\* The rows calcular_realizado filters.
filtro_realizado(o, vendedor, mes, ano) ==
    /\ o.vendedor = vendedor
    /\ o.etapa = FECHAMENTO
    /\ Calendario[o.atualizado_em].mes = mes
    /\ Calendario[o.atualizado_em].ano = ano

\* The rows calcular_pipeline filters, the excluded ones left out.
filtro_pipeline(o, vendedor, mes, ano) ==
    /\ o.vendedor = vendedor
    /\ Calendario[o.criado_em].mes = mes
    /\ Calendario[o.criado_em].ano = ano
    /\ o.etapa \notin {FECHAMENTO, PERDIDA}

\* As calcular_realizado, on the creation timestamp.
calcular_realizado_por_criacao(vendedor, mes, ano) ==
    or_zero(aggregate_Sum({pk \in DOMAIN oportunidades :
                /\ oportunidades[pk].vendedor = vendedor
                /\ oportunidades[pk].etapa = FECHAMENTO
                /\ Calendario[oportunidades[pk].criado_em].mes = mes
                /\ Calendario[oportunidades[pk].criado_em].ano = ano}))

calcular_realizado(vendedor, mes, ano) ==
    or_zero(aggregate_Sum({pk \in DOMAIN oportunidades :
                filtro_realizado(oportunidades[pk], vendedor, mes, ano)}))

calcular_pipeline(vendedor, mes, ano) ==
    or_zero(aggregate_Sum({pk \in DOMAIN oportunidades :
                filtro_pipeline(oportunidades[pk], vendedor, mes, ano)}))

\* valor_meta * Decimal("1.5") is exact: pipeline >= valor_meta * 1.5 is
\* 2 * pipeline >= 3 * valor_meta.
\* As calcular_status_meta, the comparisons strict.
calcular_status_meta_estrito(valor_meta, pipeline) ==
    IF valor_meta <= 0 THEN "OK"
    ELSE IF 2 * pipeline > 3 * valor_meta THEN "OK"
    ELSE IF pipeline > valor_meta THEN "ATENCAO"
    ELSE "RISCO"

calcular_status_meta(valor_meta, pipeline) ==
    IF valor_meta <= 0 THEN "OK"
    ELSE IF 2 * pipeline >= 3 * valor_meta THEN "OK"
    ELSE IF pipeline >= valor_meta THEN "ATENCAO"
    ELSE "RISCO"

\* round(Decimal, 1) of n / d, in tenths: Decimal.__round__ quantizes with
\* ROUND_HALF_EVEN.  d > 0.
round_1(n, d) ==
    LET q == (n * 10) \div d
        r == (n * 10) % d
    IN IF 2 * r < d THEN q
       ELSE IF 2 * r > d THEN q + 1
       ELSE IF q % 2 = 0 THEN q ELSE q + 1

\* mes = mes or hoje.month (ano likewise), when either is None
mes_resolvido(mes, ano) ==
    IF mes = None \/ ano = None
    THEN (IF mes = None \/ mes[1] = 0 THEN hoje.mes ELSE mes[1])
    ELSE mes[1]

ano_resolvido(mes, ano) ==
    IF mes = None \/ ano = None
    THEN (IF ano = None \/ ano[1] = 0 THEN hoje.ano ELSE ano[1])
    ELSE ano[1]

\* MetaComercial.objects.get(vendedor=, mes=, ano=): None stands for
\* DoesNotExist.  (vendedor, mes, ano) is unique in the table.
\* As MetaComercial_get, the month and year left out of the lookup.
MetaComercial_get_sem_periodo(vendedor, mes, ano) ==
    LET linhas == {m \in metas : m.vendedor = vendedor}
    IN IF linhas = {} THEN None ELSE Some(CHOOSE m \in linhas : TRUE)

MetaComercial_get(vendedor, mes, ano) ==
    LET linhas == {m \in metas : m.vendedor = vendedor /\ m.mes = mes /\ m.ano = ano}
    IN IF linhas = {} THEN None ELSE Some(CHOOSE m \in linhas : TRUE)

\* As obter_meta_vendedor, the status taken from realizado.
obter_meta_vendedor_por_realizado(vendedor, mes_arg, ano_arg) ==
    LET mes == mes_resolvido(mes_arg, ano_arg)
        ano == ano_resolvido(mes_arg, ano_arg)
        meta == MetaComercial_get(vendedor, mes, ano)
        valor_meta == IF meta = None THEN 0 ELSE meta[1].valor_meta
        realizado == calcular_realizado(vendedor, mes, ano)
        pipeline == calcular_pipeline(vendedor, mes, ano)
        percentual == IF valor_meta > 0
                      THEN round_1(realizado * 100, valor_meta)
                      ELSE 0
        status == calcular_status_meta(valor_meta, realizado)
    IN [meta |-> meta, valor_meta |-> valor_meta, realizado |-> realizado,
        pipeline |-> pipeline, percentual |-> percentual, status |-> status,
        mes |-> mes, ano |-> ano]

\* percentual is in tenths of a percent point.
obter_meta_vendedor(vendedor, mes_arg, ano_arg) ==
    LET mes == mes_resolvido(mes_arg, ano_arg)
        ano == ano_resolvido(mes_arg, ano_arg)
        meta == MetaComercial_get(vendedor, mes, ano)
        valor_meta == IF meta = None THEN 0 ELSE meta[1].valor_meta
        realizado == calcular_realizado(vendedor, mes, ano)
        pipeline == calcular_pipeline(vendedor, mes, ano)
        percentual == IF valor_meta > 0
                      THEN round_1(realizado * 100, valor_meta)
                      ELSE 0
        status == calcular_status_meta(valor_meta, pipeline)
    IN [meta |-> meta, valor_meta |-> valor_meta, realizado |-> realizado,
        pipeline |-> pipeline, percentual |-> percentual, status |-> status,
        mes |-> mes, ano |-> ano]

\* The orders in which the data store may hand out a set of rows.
Ordens(linhas) ==
    {s \in [1..Cardinality(linhas) -> linhas] :
        \A i, j \in DOMAIN s : i # j => s[i] # s[j]}

\* ordem: the order in which MetaComercial.objects.filter(mes=, ano=) hands
\* out its rows (the query states none).
listar_metas_vendedores(mes_arg, ano_arg, ordem) ==
    LET mes == mes_resolvido(mes_arg, ano_arg)
        ano == ano_resolvido(mes_arg, ano_arg)
    IN [resultado |-> [i \in DOMAIN ordem |->
                          obter_meta_vendedor(ordem[i].vendedor, Some(mes), Some(ano))],
        mes |-> mes, ano |-> ano]

\* As metas_filter, every row of the table.
metas_filter_sem_periodo(mes_arg, ano_arg) == metas

\* MetaComercial.objects.filter(mes=mes, ano=ano)
metas_filter(mes_arg, ano_arg) ==
    {m \in metas : /\ m.mes = mes_resolvido(mes_arg, ano_arg)
                   /\ m.ano = ano_resolvido(mes_arg, ano_arg)}

----------------------------------------------------------------------------
(* Initial state and the requests, each executed as a whole *)

Ocioso == [pc |-> "ocioso"]

Init ==
    /\ oportunidades = << >>
    /\ metas = {}
    /\ interacoes = 0
    /\ agora = 1
    /\ reqs = [r \in Requests |-> Ocioso]
    /\ resp = [op |-> "init"]

\* The clock moves on to the next instant.
Tick ==
    /\ agora < Len(Calendario)
    /\ agora' = agora + 1
    /\ resp' = [op |-> "tick"]
    /\ UNCHANGED <<oportunidades, metas, interacoes, reqs>>

\* OportunidadeCreateView.form_valid
Criar(vendedor, valor_estimado) ==
    /\ Len(oportunidades) < MaxOportunidades
    /\ oportunidades' = Append(oportunidades,
                               criar_oportunidade(vendedor, valor_estimado))
    /\ resp' = [op |-> "criar", pk |-> Len(oportunidades) + 1, erro |-> ""]
    /\ UNCHANGED <<metas, interacoes, agora, reqs>>

\* The answer to a seller's post on another seller's opportunity.
Negado(pk) == [op |-> "negado", pk |-> pk, erro |-> "PermissionDenied"]

\* OportunidadeAvancarView.post of seller user, from get_object_or_404 to
\* the response
Avancar(user, pk) ==
    /\ pk \in DOMAIN oportunidades
    /\ IF oportunidades[pk].vendedor # user
       THEN /\ resp' = Negado(pk)
            /\ UNCHANGED oportunidades
       ELSE LET r == avancar_etapa(oportunidades[pk]) IN
            /\ oportunidades' = Persistido(pk, r)
            /\ resp' = [op |-> "avancar", pk |-> pk, erro |-> r.erro]
    /\ UNCHANGED <<metas, interacoes, agora, reqs>>

\* OportunidadePerdidaView.post of seller user, from get_object_or_404 to
\* the response
Perder(user, pk) ==
    /\ pk \in DOMAIN oportunidades
    /\ IF oportunidades[pk].vendedor # user
       THEN /\ resp' = Negado(pk)
            /\ UNCHANGED oportunidades
       ELSE LET r == marcar_perdida(oportunidades[pk]) IN
            /\ oportunidades' = Persistido(pk, r)
            /\ resp' = [op |-> "perder", pk |-> pk, erro |-> r.erro]
    /\ UNCHANGED <<metas, interacoes, agora, reqs>>

\* InteracaoCreateView.form_valid: the form offers a seller their own
\* opportunities.
RegistrarInteracao(pk) ==
    /\ pk \in DOMAIN oportunidades
    /\ interacoes < MaxInteracoes
    /\ interacoes' = registrar_interacao(pk)
    /\ resp' = [op |-> "interacao", pk |-> pk, erro |-> ""]
    /\ UNCHANGED <<oportunidades, metas, agora, reqs>>

\* The administrative process adds a target: one row at most for a seller
\* and a month.
DefinirMeta(vendedor, periodo, valor_meta) ==
    /\ \A m \in metas : ~(m.vendedor = vendedor /\ m.mes = periodo.mes
                           /\ m.ano = periodo.ano)
    /\ metas' = metas \cup {[vendedor |-> vendedor, mes |-> periodo.mes,
                             ano |-> periodo.ano, valor_meta |-> valor_meta]}
    /\ resp' = [op |-> "meta"]
    /\ UNCHANGED <<oportunidades, interacoes, agora, reqs>>

ConsultarRealizado(vendedor, mes, ano) ==
    /\ resp' = [op |-> "realizado", vendedor |-> vendedor, mes |-> mes,
                ano |-> ano, total |-> calcular_realizado(vendedor, mes, ano)]
    /\ UNCHANGED <<oportunidades, metas, interacoes, agora, reqs>>

ConsultarPipeline(vendedor, mes, ano) ==
    /\ resp' = [op |-> "pipeline", vendedor |-> vendedor, mes |-> mes,
                ano |-> ano, total |-> calcular_pipeline(vendedor, mes, ano)]
    /\ UNCHANGED <<oportunidades, metas, interacoes, agora, reqs>>

CalcularStatus(valor_meta, pipeline) ==
    /\ resp' = [op |-> "status", valor_meta |-> valor_meta, pipeline |-> pipeline,
                status |-> calcular_status_meta(valor_meta, pipeline)]
    /\ UNCHANGED <<oportunidades, metas, interacoes, agora, reqs>>

\* MinhaMetaView.get_context_data
ObterMeta(vendedor, args) ==
    /\ resp' = [op |-> "obter", vendedor |-> vendedor, args |-> args,
                dados |-> obter_meta_vendedor(vendedor, args.mes, args.ano)]
    /\ UNCHANGED <<oportunidades, metas, interacoes, agora, reqs>>

\* MetasPorVendedorView.get_context_data
ListarMetas(args) ==
    /\ \E ordem \in Ordens(metas_filter(args.mes, args.ano)) :
         resp' = [op |-> "listar", args |-> args,
                  retorno |-> listar_metas_vendedores(args.mes, args.ano, ordem)]
    /\ UNCHANGED <<oportunidades, metas, interacoes, agora, reqs>>

\* get_object_or_404 of a post of seller user, and the check that the row
\* is theirs: the request holds its own copy of the row.
Get(r, user, view, pk) ==
    /\ reqs[r].pc = "ocioso"
    /\ pk \in DOMAIN oportunidades
    /\ IF oportunidades[pk].vendedor # user
       THEN /\ resp' = Negado(pk)
            /\ UNCHANGED reqs
       ELSE /\ reqs' = [reqs EXCEPT ![r] =
                          [pc |-> "carregado", view |-> view, pk |-> pk,
                           oportunidade |-> oportunidades[pk]]]
            /\ resp' = [op |-> "get", pk |-> pk, erro |-> ""]
    /\ UNCHANGED <<oportunidades, metas, interacoes, agora>>

\* The rest of the post: the service call on the copy, and the response.
Post(r) ==
    /\ reqs[r].pc = "carregado"
    /\ LET pk == reqs[r].pk
           s == IF reqs[r].view = "avancar"
                THEN avancar_etapa(reqs[r].oportunidade)
                ELSE marcar_perdida(reqs[r].oportunidade)
       IN /\ oportunidades' = Persistido(pk, s)
          /\ resp' = [op |-> IF reqs[r].view = "avancar" THEN "avancar" ELSE "perder",
                      pk |-> pk, erro |-> s.erro]
    /\ reqs' = [reqs EXCEPT ![r] = Ocioso]
    /\ UNCHANGED <<metas, interacoes, agora>>

Next ==
    \/ Tick
    \/ \E v \in Vendedores, val \in Valores : Criar(v, val)
    \/ \E u \in Vendedores, pk \in 1..MaxOportunidades : Avancar(u, pk)
    \/ \E u \in Vendedores, pk \in 1..MaxOportunidades : Perder(u, pk)
    \/ \E pk \in 1..MaxOportunidades : RegistrarInteracao(pk)

Spec == Init /\ [][Next]_vars

\* The lifecycle with the two aggregation queries.
NextConsultas ==
    \/ Tick
    \/ \E v \in Vendedores, val \in Valores : Criar(v, val)
    \/ \E u \in Vendedores, pk \in 1..MaxOportunidades : Avancar(u, pk)
    \/ \E u \in Vendedores, pk \in 1..MaxOportunidades : Perder(u, pk)
    \/ \E v \in Vendedores, a \in ArgsCompletos :
          ConsultarRealizado(v, a.mes[1], a.ano[1])
    \/ \E v \in Vendedores, a \in ArgsCompletos :
          ConsultarPipeline(v, a.mes[1], a.ano[1])

SpecConsultas == Init /\ [][NextConsultas]_vars

\* The lifecycle within one month, with the targets and the two reports.
NextMetas ==
    \/ \E v \in Vendedores, val \in Valores : Criar(v, val)
    \/ \E u \in Vendedores, pk \in 1..MaxOportunidades : Avancar(u, pk)
    \/ \E u \in Vendedores, pk \in 1..MaxOportunidades : Perder(u, pk)
    \/ \E v \in Vendedores, vm \in ValoresMeta : DefinirMeta(v, PeriodoMeta, vm)
    \/ \E v \in Vendedores, a \in ArgsPeriodo : ObterMeta(v, a)
    \/ \E a \in ArgsPeriodo : ListarMetas(a)

SpecMetas == Init /\ [][NextMetas]_vars

\* calcular_status_meta on its own.
NextStatus ==
    \E vm \in (0 - 2)..MaxValorStatus, p \in (0 - 2)..(2 * MaxValorStatus) :
        CalcularStatus(vm, p)

SpecStatus == Init /\ [][NextStatus]_vars

\* Posts whose load and save are separate steps, so that two of them on one
\* opportunity interleave.
NextConc ==
    \/ \E v \in Vendedores, val \in Valores : Criar(v, val)
    \/ \E r \in Requests, u \in Vendedores, view \in {"avancar", "perdida"},
          pk \in 1..MaxOportunidades : Get(r, u, view, pk)
    \/ \E r \in Requests : Post(r)

SpecConc == Init /\ [][NextConc]_vars

----------------------------------------------------------------------------
(* The properties *)

EtapasAbertas == {PROSPECCAO, QUALIFICACAO, PROPOSTA, NEGOCIACAO}

\* The stage after each open stage.
Seguinte(etapa) ==
    CASE etapa = PROSPECCAO -> QUALIFICACAO
      [] etapa = QUALIFICACAO -> PROPOSTA
      [] etapa = PROPOSTA -> NEGOCIACAO
      [] etapa = NEGOCIACAO -> FECHAMENTO

\* The step is the service call `op` on row pk.
Chamou(op, pk) == resp'.op = op /\ resp'.pk = pk

OutrasIguais(pk) ==
    \A k \in DOMAIN oportunidades : k # pk => oportunidades'[k] = oportunidades[k]

\* C1: advance_stage on an opportunity at PROSPECTING, QUALIFICATION,
\* PROPOSAL or NEGOTIATION succeeds and persists exactly the next stage of
\* the ordering, with the update timestamp and nothing else of the row.
C1_AvancaParaSeguinte ==
    [][\A pk \in DOMAIN oportunidades :
          (Chamou("avancar", pk) /\ oportunidades[pk].etapa \in EtapasAbertas)
          => /\ resp'.erro = ""
             /\ oportunidades'[pk] =
                  [oportunidades[pk] EXCEPT
                      !.etapa = Seguinte(oportunidades[pk].etapa),
                      !.atualizado_em = agora]
             /\ OutrasIguais(pk)]_vars

C1_Witness ==
    /\ resp.op = "avancar"
    /\ resp.erro = ""
    /\ oportunidades[resp.pk].etapa = FECHAMENTO

\* C2: advance_stage on a CLOSED_WON or LOST opportunity fails with the
\* invalid-transition error and saves nothing.
C2_AvancaRecusado ==
    [][\A pk \in DOMAIN oportunidades :
          (Chamou("avancar", pk) /\ oportunidades[pk].etapa \in {FECHAMENTO, PERDIDA})
          => /\ resp'.erro = "ValidationError"
             /\ oportunidades' = oportunidades]_vars

C2_Witness ==
    /\ resp.op = "avancar"
    /\ resp.erro = "ValidationError"
    /\ oportunidades[resp.pk].etapa = PERDIDA
    /\ \E k \in DOMAIN oportunidades : oportunidades[k].etapa = FECHAMENTO

\* C3: mark_lost on a CLOSED_WON opportunity fails with the
\* invalid-transition error and leaves it CLOSED_WON; on any other stage,
\* LOST included, it succeeds and the persisted stage is LOST.
C3_PerdidaSalvoFechada ==
    [][\A pk \in DOMAIN oportunidades :
          Chamou("perder", pk)
          => IF oportunidades[pk].etapa = FECHAMENTO
             THEN /\ resp'.erro = "ValidationError"
                  /\ oportunidades' = oportunidades
             ELSE /\ resp'.erro = ""
                  /\ oportunidades'[pk].etapa = PERDIDA
                  /\ OutrasIguais(pk)]_vars

\* A LOST opportunity marked lost again, a month later.
C3_Witness ==
    /\ resp.op = "perder"
    /\ resp.erro = ""
    /\ oportunidades[resp.pk].etapa = PERDIDA
    /\ oportunidades[resp.pk].atualizado_em = 2
    /\ \E k \in DOMAIN oportunidades : oportunidades[k].etapa = FECHAMENTO

\* C4: compute_status is OK when target_value <= 0 or pipeline >= 1.5 x
\* target_value, ATTENTION when target_value > 0 and target_value <=
\* pipeline < 1.5 x target_value, AT_RISK when target_value > 0 and
\* pipeline < target_value, and nothing else.
C4_Faixas ==
    resp.op = "status" =>
        LET vm == resp.valor_meta
            p == resp.pipeline
        IN /\ resp.status \in {"OK", "ATENCAO", "RISCO"}
           /\ resp.status = "OK" <=> (vm <= 0 \/ 2 * p >= 3 * vm)
           /\ resp.status = "ATENCAO" <=> (vm > 0 /\ vm <= p /\ 2 * p < 3 * vm)
           /\ resp.status = "RISCO" <=> (vm > 0 /\ p < vm)

\* pipeline == target_value, answered ATTENTION.
C4_Witness ==
    /\ resp.op = "status"
    /\ resp.valor_meta > 0
    /\ resp.pipeline = resp.valor_meta
    /\ resp.status = "ATENCAO"

\* The sum of valor_estimado over the rows 1..n that are in pks.
RECURSIVE Total(_, _)
Total(pks, n) ==
    IF n = 0 THEN 0
    ELSE Total(pks, n - 1) + (IF n \in pks THEN oportunidades[n].valor_estimado ELSE 0)

RealizadoEsperado(vendedor, mes, ano) ==
    Total({pk \in DOMAIN oportunidades :
              /\ oportunidades[pk].vendedor = vendedor
              /\ oportunidades[pk].etapa = FECHAMENTO
              /\ Calendario[oportunidades[pk].atualizado_em] = [mes |-> mes, ano |-> ano]},
          Len(oportunidades))

PipelineEsperado(vendedor, mes, ano) ==
    Total({pk \in DOMAIN oportunidades :
              /\ oportunidades[pk].vendedor = vendedor
              /\ oportunidades[pk].etapa # FECHAMENTO
              /\ oportunidades[pk].etapa # PERDIDA
              /\ Calendario[oportunidades[pk].criado_em] = [mes |-> mes, ano |-> ano]},
          Len(oportunidades))

\* C5: after any sequence of opportunity operations compute_realized is the
\* sum of estimated_value over the seller's CLOSED_WON opportunities updated
\* in the month/year, and compute_pipeline the sum over the seller's
\* opportunities created in the month/year that are neither CLOSED_WON nor
\* LOST; each is 0 when none matches.
C5_Somas ==
    /\ resp.op = "realizado" =>
          resp.total = RealizadoEsperado(resp.vendedor, resp.mes, resp.ano)
    /\ resp.op = "pipeline" =>
          resp.total = PipelineEsperado(resp.vendedor, resp.mes, resp.ano)

\* Two of the seller's deals closed in July, one of them created in June.
C5_Witness ==
    /\ resp.op = "realizado"
    /\ resp.mes = 7
    /\ \E k \in DOMAIN oportunidades :
          /\ oportunidades[k].vendedor = resp.vendedor
          /\ oportunidades[k].criado_em = 1
          /\ oportunidades[k].etapa = FECHAMENTO
    /\ resp.total = 1200

\* The month and year a report is asked for: the current ones where the
\* request names none.
PeriodoPedido(args) ==
    [mes |-> IF args.mes = None THEN Calendario[agora].mes ELSE args.mes[1],
     ano |-> IF args.ano = None THEN Calendario[agora].ano ELSE args.ano[1]]

MetasDe(periodo) == {m \in metas : m.mes = periodo.mes /\ m.ano = periodo.ano}

\* C6: with no target row of the seller for the month/year asked,
\* get_seller_target gives no target record, target_value 0, percentage 0.0
\* and status OK, whatever realized and pipeline are.
C6_SemMeta ==
    (/\ resp.op = "obter"
     /\ \A m \in MetasDe(PeriodoPedido(resp.args)) : m.vendedor # resp.vendedor)
    => /\ resp.dados.meta = None
       /\ resp.dados.valor_meta = 0
       /\ resp.dados.percentual = 0
       /\ resp.dados.status = "OK"

\* A seller with no target for the month, realized and pipeline above zero,
\* while the other seller has a target.
C6_Witness ==
    /\ resp.op = "obter"
    /\ resp.dados.meta = None
    /\ resp.dados.realizado > 0
    /\ resp.dados.pipeline > 0
    /\ \E m \in metas : m.vendedor # resp.vendedor

Abs(x) == IF x < 0 THEN 0 - x ELSE x

StatusEsperado(valor_meta, pipeline) ==
    IF valor_meta <= 0 \/ 2 * pipeline >= 3 * valor_meta THEN "OK"
    ELSE IF pipeline >= valor_meta THEN "ATENCAO"
    ELSE "RISCO"

\* C7: with a target row of target_value > 0, get_seller_target gives
\* percentage = realized / target_value x 100 to the nearest tenth and
\* status = compute_status(target_value, pipeline), realized and pipeline
\* being what compute_realized and compute_pipeline give for the seller and
\* the month/year; realized does not enter the status.
C7_PercentualEStatus ==
    (resp.op = "obter" /\ resp.dados.valor_meta > 0)
    => LET d == resp.dados
           realizado == RealizadoEsperado(resp.vendedor, d.mes, d.ano)
           pipeline == PipelineEsperado(resp.vendedor, d.mes, d.ano)
       IN /\ d.realizado = realizado
          /\ d.pipeline = pipeline
          /\ 2 * Abs(d.percentual * d.valor_meta - realizado * 1000) <= d.valor_meta
          /\ d.status = StatusEsperado(d.valor_meta, pipeline)

\* Target 450, realized 600, pipeline 600: 133.3 % and ATTENTION.
C7_Witness ==
    /\ resp.op = "obter"
    /\ resp.dados.valor_meta = 450
    /\ resp.dados.realizado = 600
    /\ resp.dados.pipeline = 600
    /\ resp.dados.percentual = 1333
    /\ resp.dados.status = "ATENCAO"

\* C8: list_seller_targets gives one entry for each target row of the
\* month/year and no other, each entry what get_seller_target gives for the
\* row's seller and that month/year, with the month and year resolved.
C8_ListaPorMeta ==
    resp.op = "listar" =>
        LET periodo == PeriodoPedido(resp.args)
            linhas == MetasDe(periodo)
            res == resp.retorno.resultado
        IN /\ resp.retorno.mes = periodo.mes
           /\ resp.retorno.ano = periodo.ano
           /\ Len(res) = Cardinality(linhas)
           /\ \A m \in linhas : \E i \in DOMAIN res : res[i].meta = Some(m)
           /\ \A i \in DOMAIN res :
                 /\ res[i].meta # None
                 /\ res[i].meta[1] \in linhas
                 /\ res[i] = obter_meta_vendedor(res[i].meta[1].vendedor,
                                                 Some(periodo.mes), Some(periodo.ano))

\* Two targets listed, their sellers in different bands.
C8_Witness ==
    /\ resp.op = "listar"
    /\ Len(resp.retorno.resultado) = 2
    /\ resp.retorno.resultado[1].status # resp.retorno.resultado[2].status
    /\ resp.retorno.resultado[1].realizado > 0

\* C9 as claimed: a persisted CLOSED_WON stage never changes and a
\* persisted LOST stage is never followed by another, whichever way the
\* load and save steps of two posts on the opportunity interleave.
C9_Terminal ==
    [][\A pk \in DOMAIN oportunidades :
          /\ oportunidades[pk].etapa = FECHAMENTO
                => oportunidades'[pk].etapa = FECHAMENTO
          /\ oportunidades[pk].etapa = PERDIDA
                => oportunidades'[pk].etapa = PERDIDA]_vars

\* The post of request r takes this step, on a copy of row pk whose stage
\* is no longer the persisted one.
PostDefasado(r, pk) ==
    /\ reqs[r].pc = "carregado"
    /\ reqs'[r].pc = "ocioso"
    /\ reqs[r].pk = pk
    /\ reqs[r].oportunidade.etapa # oportunidades[pk].etapa

\* C9 amended: a persisted CLOSED_WON or LOST stage is changed by no post
\* that loaded the row after that stage was persisted; only a post that
\* loaded it before, and saves after, overwrites it.
C9_TerminalSemDefasagem ==
    [][\A pk \in DOMAIN oportunidades :
          (\/ /\ oportunidades[pk].etapa = FECHAMENTO
              /\ oportunidades'[pk].etapa # FECHAMENTO
           \/ /\ oportunidades[pk].etapa = PERDIDA
              /\ oportunidades'[pk].etapa # PERDIDA)
          => \E r \in Requests : PostDefasado(r, pk)]_vars

\* Both posts loaded a closed opportunity and both were refused.
C9_Witness ==
    /\ resp.op \in {"avancar", "perder"}
    /\ resp.erro = "ValidationError"
    /\ oportunidades[resp.pk].etapa = FECHAMENTO
    /\ \A r \in Requests : reqs[r].pc = "ocioso"
    /\ \E k \in DOMAIN oportunidades : oportunidades[k].etapa = PERDIDA

PeriodosConsulta == {[mes |-> a.mes[1], ano |-> a.ano[1]] : a \in ArgsCompletos}

\* C10: with every operation executed as a whole, the step that brings an
\* opportunity to CLOSED_WON is an advance_stage call, which adds its value
\* to compute_realized of the month/year of the call and of no other; and
\* once CLOSED_WON the row is never written again, so that compute_realized
\* changes in no step but such a one.
C10_RealizadoNoMesDoFechamento ==
    [][oportunidades' # oportunidades =>
       /\ \A pk \in DOMAIN oportunidades :
            LET o == oportunidades[pk] IN
            /\ o.etapa = FECHAMENTO => oportunidades'[pk] = o
            /\ (o.etapa # FECHAMENTO /\ oportunidades'[pk].etapa = FECHAMENTO)
               => /\ Chamou("avancar", pk)
                  /\ \A p \in PeriodosConsulta :
                        (calcular_realizado(o.vendedor, p.mes, p.ano))' =
                            calcular_realizado(o.vendedor, p.mes, p.ano)
                            + (IF p = hoje THEN o.valor_estimado ELSE 0)
       /\ (\A pk \in DOMAIN oportunidades :
              oportunidades'[pk].etapa = FECHAMENTO => oportunidades[pk].etapa = FECHAMENTO)
          => \A v \in Vendedores, p \in PeriodosConsulta :
                (calcular_realizado(v, p.mes, p.ano))' =
                    calcular_realizado(v, p.mes, p.ano)]_vars

\* A deal closed in June, still realized in June after a refused mark_lost
\* in July.
C10_Witness ==
    /\ resp.op = "perder"
    /\ resp.erro = "ValidationError"
    /\ agora = 2
    /\ oportunidades[resp.pk].atualizado_em = 1
    /\ calcular_realizado(oportunidades[resp.pk].vendedor, 6, 2024) = 600
    /\ calcular_realizado(oportunidades[resp.pk].vendedor, 7, 2024) = 0
    /\ interacoes > 0

====
